---- MODULE Spec2Model ----
(***************************************************************************)
(* Model of ytdlp-service/app.py: the /api/extract/{video_id} handler      *)
(* (extract_video_info), the executor hand-off of extract_info_async and   *)
(* the manifest classification it performs on the yt-dlp info record.      *)
(*                                                                         *)
(* Python values are records [t, v]: t is the Python type ("missing" for a *)
(* key that is not in the dict, "none" for None, "str", "int", "list") and *)
(* v the payload.  A str is the sequence of its characters, so that        *)
(* str.lower() and the `in` substring test are computed, not assumed.      *)
(***************************************************************************)
EXTENDS Naturals, Sequences, FiniteSets

(* ------------------------------ bounds -------------------------------- *)
MaxFormats == 2
NumRequests == 2
MaxWorkers == 1

Requests == 1..NumRequests

(* --------------------------- Python values ---------------------------- *)
Missing == [t |-> "missing", v |-> <<>>]
None == [t |-> "none", v |-> <<>>]
Str(s) == [t |-> "str", v |-> s]
IntVal(s) == [t |-> "int", v |-> s]
List(s) == [t |-> "list", v |-> s]

\* bool(x) of a value held in a local: None and "" are falsy
Truthy(x) == x.t \in {"str", "int", "list"} /\ Len(x.v) > 0

\* d.get(k): the value, None when the key is not in the dict
Get(x) == IF x.t = "missing" THEN None ELSE x

\* d.get(k, ''): the default only replaces a key that is not in the dict
GetOrEmpty(x) == IF x.t = "missing" THEN Str(<<>>) ELSE x

\* k in d
HasKey(x) == x.t # "missing"

LowerChar(c) ==
  CASE c = "D" -> "d"
    [] c = "A" -> "a"
    [] c = "S" -> "s"
    [] c = "H" -> "h"
    [] c = "M" -> "m"
    [] c = "P" -> "p"
    [] OTHER -> c

\* str.lower()
Lower(s) == [i \in 1..Len(s) |-> LowerChar(s[i])]

\* sub in s, for two str payloads
Contains(sub, s) ==
  \E i \in 0..Len(s) :
    /\ i + Len(sub) <= Len(s)
    /\ \A j \in 1..Len(sub) : s[i + j] = sub[j]

M3U8 == <<"m", "3", "u", "8">>
DASH == <<"d", "a", "s", "h">>
M3U8_NATIVE == <<"m", "3", "u", "8", "_", "n", "a", "t", "i", "v", "e">>
UNKNOWN == <<"U", "n", "k", "n", "o", "w", "n">>

(* ------------------------- per-format steps --------------------------- *)
\* variant: the ext test is left out
IsHlsFormatProtocolOnly(fmt) == Get(fmt.protocol) = Str(M3U8_NATIVE)

\* line 168: fmt.get('protocol') == 'm3u8_native' or fmt.get('ext') == 'm3u8'
IsHlsFormat(fmt) ==
  \/ Get(fmt.protocol) = Str(M3U8_NATIVE)
  \/ Get(fmt.ext) = Str(M3U8)

\* variant: assigns on every match (no `if not hls_manifest`)
HlsAfterFormatOverwrite(hls, fmt) ==
  IF IsHlsFormat(fmt) THEN Get(fmt.url) ELSE hls

\* variant: `if hls_manifest is None` in place of `if not hls_manifest`
HlsAfterFormatIsNone(hls, fmt) ==
  IF IsHlsFormat(fmt) /\ hls = None THEN Get(fmt.url) ELSE hls

\* lines 169-170
HlsAfterFormat(hls, fmt) ==
  IF IsHlsFormat(fmt) /\ ~Truthy(hls) THEN Get(fmt.url) ELSE hls

\* line 174, right operand: ''.lower() is only defined on a str
DashCheckRaises(fmt) ==
  HasKey(fmt.manifest_url) /\ GetOrEmpty(fmt.protocol).t # "str"

\* variant: the protocol is matched without .lower()
IsDashFormatCaseSensitive(fmt) ==
  /\ HasKey(fmt.manifest_url)
  /\ GetOrEmpty(fmt.protocol).t = "str"
  /\ Contains(DASH, GetOrEmpty(fmt.protocol).v)

\* line 174
IsDashFormat(fmt) ==
  /\ HasKey(fmt.manifest_url)
  /\ GetOrEmpty(fmt.protocol).t = "str"
  /\ Contains(DASH, Lower(GetOrEmpty(fmt.protocol).v))

\* lines 175-176
DashAfterFormat(dash, fmt) ==
  IF IsDashFormat(fmt) /\ ~Truthy(dash) THEN Get(fmt.manifest_url) ELSE dash

\* variant: is_hls is set from the protocol alone
FormatInfoHlsByProtocol(fmt) ==
  [format_id |-> Get(fmt.format_id),
   ext |-> Get(fmt.ext),
   protocol |-> Get(fmt.protocol),
   url |-> Get(fmt.url),
   is_hls |-> Get(fmt.protocol) = Str(M3U8_NATIVE),
   is_dash |-> IsDashFormat(fmt)]

\* lines 152-165, 171, 177: the descriptor; is_hls / is_dash are keys that
\* exist (with the value True) only on a match
FormatInfo(fmt) ==
  [format_id |-> Get(fmt.format_id),
   ext |-> Get(fmt.ext),
   protocol |-> Get(fmt.protocol),
   url |-> Get(fmt.url),
   is_hls |-> IsHlsFormat(fmt),
   is_dash |-> IsDashFormat(fmt)]

(* ------------------------- top-level fallback ------------------------- *)
\* lines 182-184: 'm3u8' in manifest_url needs a str (or another container)
FallbackManifestRaises(hls, info) ==
  ~Truthy(hls) /\ HasKey(info.manifest_url) /\ info.manifest_url.t # "str"

\* lines 182-185
HlsAfterManifestUrl(hls, info) ==
  IF ~Truthy(hls) /\ HasKey(info.manifest_url)
     /\ info.manifest_url.t = "str" /\ Contains(M3U8, info.manifest_url.v)
  THEN info.manifest_url ELSE hls

\* lines 187-189
FallbackUrlRaises(hls, info) ==
  ~Truthy(hls) /\ HasKey(info.url) /\ info.url.t # "str"

\* variant: the top-level url is taken without the `not hls_manifest` test
HlsAfterUrlAlways(hls, info) ==
  IF HasKey(info.url) /\ info.url.t = "str" /\ Contains(M3U8, info.url.v)
  THEN info.url ELSE hls

\* lines 187-190
HlsAfterUrl(hls, info) ==
  IF ~Truthy(hls) /\ HasKey(info.url)
     /\ info.url.t = "str" /\ Contains(M3U8, info.url.v)
  THEN info.url ELSE hls

(* ------------------------- response assembly -------------------------- *)
\* line 195: info.get('title', 'Unknown')
TitleOf(info) == IF HasKey(info.title) THEN info.title ELSE Str(UNKNOWN)

\* lines 41-51: pydantic validation of VideoInfo; title: str is required
ValidationRaises(info) ==
  \/ TitleOf(info).t # "str"
  \/ Get(info.duration).t \notin {"none", "int"}
  \/ Get(info.view_count).t \notin {"none", "int"}
  \/ Get(info.thumbnail).t \notin {"none", "str"}
  \/ Get(info.uploader).t \notin {"none", "str"}
  \/ Get(info.manifest_url).t \notin {"none", "str"}

\* lines 193-204
MakeVideoInfo(vid, info, fl, hls, dash) ==
  [video_id |-> vid,
   title |-> TitleOf(info),
   duration |-> Get(info.duration),
   formats |-> fl,
   manifest_url |-> Get(info.manifest_url),
   hls_manifest_url |-> hls,
   dash_manifest_url |-> dash,
   thumbnail |-> Get(info.thumbnail),
   uploader |-> Get(info.uploader),
   view_count |-> Get(info.view_count)]

\* variant: `except Exception` comes first and takes every exception
ExceptStatusAlways500(exc) == 500

\* lines 209-214: the two except clauses of the handler
ExceptStatus(exc) == IF exc = "DownloadError" THEN 404 ELSE 500

(* ------------------------------ inputs -------------------------------- *)
RawFormat(id, protocol, ext, url, manifest_url) ==
  [format_id |-> id, protocol |-> protocol, ext |-> ext, url |-> url,
   manifest_url |-> manifest_url]

sA == Str(<<"a">>)
sB == Str(<<"b">>)
sC == Str(<<"c">>)
sM == Str(<<"m">>)
sN == Str(<<"n">>)
sEmpty == Str(<<>>)
sHttps == Str(<<"h", "t", "t", "p", "s">>)
sNative == Str(M3U8_NATIVE)
sDashUpper == Str(<<"D", "A", "S", "H", "-", "m", "p", "4">>)
sDash == Str(<<"h", "_", "d", "a", "s", "h">>)
sMp4 == Str(<<"m", "p", "4">>)
sM3u8 == Str(M3U8)
sTopManifest == Str(<<"p", ".", "m", "3", "u", "8">>)
sTopUrl == Str(<<"q", ".", "m", "3", "u", "8">>)
sPlainManifest == Str(<<"p">>)
sPlainUrl == Str(<<"q">>)
sTitle == Str(<<"t">>)

\* the formats the extraction library may list
RawFormats ==
  { RawFormat(Str(<<"1">>), sHttps, sMp4, sA, Missing),
    RawFormat(Str(<<"2">>), sNative, Missing, sB, Missing),
    RawFormat(Str(<<"3">>), sNative, sMp4, None, Missing),
    RawFormat(Str(<<"4">>), sHttps, sM3u8, sC, Missing),
    RawFormat(Str(<<"5">>), sNative, sM3u8, sEmpty, Missing),
    RawFormat(Missing, sNative, Missing, Missing, Missing),
    RawFormat(Str(<<"7">>), sDashUpper, sMp4, sA, sM),
    RawFormat(Str(<<"8">>), sDash, sM3u8, sB, sN),
    RawFormat(Str(<<"9">>), sDash, Missing, Missing, sEmpty),
    RawFormat(Missing, Missing, Missing, Missing, sM),
    RawFormat(Missing, None, Missing, Missing, sM),
    RawFormat(Missing, sDash, Missing, Missing, Missing),
    RawFormat(Missing, sDash, Missing, Missing, None),
    RawFormat(Missing, Missing, Missing, Missing, Missing) }

RECURSIVE SeqsUpTo(_, _)
SeqsUpTo(S, n) ==
  IF n = 0 THEN {<<>>}
  ELSE LET shorter == SeqsUpTo(S, n - 1)
       IN shorter \cup {Append(s, x) : s \in {t \in shorter : Len(t) = n - 1}, x \in S}

RawInfo(title, formats, manifest_url, url, duration, thumbnail, uploader, view_count) ==
  [title |-> title, formats |-> formats, manifest_url |-> manifest_url,
   url |-> url, duration |-> duration, thumbnail |-> thumbnail,
   uploader |-> uploader, view_count |-> view_count]

EmptyInfo ==
  RawInfo(Missing, Missing, Missing, Missing, Missing, Missing, Missing, Missing)

TopManifestValues == {Missing, None, sPlainManifest, sTopManifest}
TopUrlValues == {Missing, None, sPlainUrl, sTopUrl}

\* info records that differ in their formats and in the top-level URLs
FormatInfos ==
  { RawInfo(sTitle, f, m, u, Missing, Missing, Missing, Missing) :
      f \in {Missing, None} \cup {List(s) : s \in SeqsUpTo(RawFormats, MaxFormats)},
      m \in TopManifestValues, u \in TopUrlValues }

\* info records that differ in their metadata
MetaInfos ==
  { RawInfo(t, Missing, m, Missing, d, th, up, vc) :
      t \in {Missing, None, sEmpty, sTitle},
      m \in {Missing, sTopManifest},
      d \in {Missing, None, IntVal(<<"7">>)},
      th \in {Missing, sA},
      up \in {Missing, None},
      vc \in {Missing, IntVal(<<"9">>)} }

\* what ydl.extract_info does for one call
Returns(info) == [kind |-> "dict", info |-> info]
ReturnsNone == [kind |-> "none", info |-> EmptyInfo]
Raises(exc) == [kind |-> exc, info |-> EmptyInfo]
NoResult == [kind |-> "pending", info |-> EmptyInfo]

Outcomes ==
  {Returns(i) : i \in FormatInfos \cup MetaInfos}
    \cup {ReturnsNone, Raises("DownloadError"), Raises("Exception")}

ConcInfos ==
  { RawInfo(sTitle, List(<<RawFormat(Str(<<"2">>), sNative, Missing, sB, Missing)>>),
            Missing, Missing, Missing, Missing, Missing, Missing),
    RawInfo(Missing, List(<<>>), sTopManifest, sTopUrl, Missing, Missing, Missing, Missing) }

ConcOutcomes ==
  {Returns(i) : i \in ConcInfos} \cup {Raises("DownloadError")}

VideoIds == {"deadbeef", "abc"}

(* ------------------------------- state -------------------------------- *)
VARIABLES
  pc,            \* where each request's handler is
  video_id,      \* the path parameter of each request
  library,       \* what ydl.extract_info will do for the request's call
  submitted,     \* number of run_in_executor calls made for the request
  future,        \* the executor future the handler awaits
  info,          \* handler local
  hls_manifest,  \* handler local
  dash_manifest, \* handler local
  formats_list,  \* handler local
  idx,           \* position of the for loop in info['formats']
  raised,        \* the exception raised inside the try block, "" if none
  status,        \* HTTP status of the response, 0 while there is none
  response       \* the VideoInfo returned

vars == <<pc, video_id, library, submitted, future, info, hls_manifest,
          dash_manifest, formats_list, idx, raised, status, response>>

NoResponse == MakeVideoInfo("", EmptyInfo, <<>>, None, None)

InitLocals ==
  /\ submitted = [r \in Requests |-> 0]
  /\ future = [r \in Requests |-> NoResult]
  /\ info = [r \in Requests |-> EmptyInfo]
  /\ hls_manifest = [r \in Requests |-> None]
  /\ dash_manifest = [r \in Requests |-> None]
  /\ formats_list = [r \in Requests |-> <<>>]
  /\ idx = [r \in Requests |-> 0]
  /\ raised = [r \in Requests |-> ""]
  /\ status = [r \in Requests |-> 0]
  /\ response = [r \in Requests |-> NoResponse]

\* one request, any extraction outcome
Init ==
  /\ pc = [r \in Requests |-> IF r = 1 THEN "start" ELSE "absent"]
  /\ video_id = [r \in Requests |-> "deadbeef"]
  /\ \E o \in Outcomes :
       library = [r \in Requests |-> IF r = 1 THEN o ELSE NoResult]
  /\ InitLocals

\* concurrent requests, for the same or for different videos (the first
\* request's video is fixed: the video ids are interchangeable)
InitConc ==
  /\ pc = [r \in Requests |-> "start"]
  /\ video_id \in {v \in [Requests -> VideoIds] : v[1] = "deadbeef"}
  /\ library \in [Requests -> ConcOutcomes]
  /\ InitLocals

(* ------------------------------ actions ------------------------------- *)
\* variant: the results are kept in one slot shared by the requests
FutureResultShared(r) ==
  LET complete == {q \in Requests : future[q].kind # "pending"}
  IN IF complete = {} THEN future[r]
     ELSE future[CHOOSE q \in complete : \A p \in complete : q <= p]

\* the result the awaiting coroutine receives: its own future's
FutureResult(r) == future[r]

\* the except clauses turn the exception into the response status
Fail(r, exc) ==
  /\ raised' = [raised EXCEPT ![r] = exc]
  /\ status' = [status EXCEPT ![r] = ExceptStatus(exc)]
  /\ pc' = [pc EXCEPT ![r] = "done"]

\* lines 133-139, 94-111: the handler calls run_in_executor and awaits
Submit(r) ==
  /\ pc[r] = "start"
  /\ pc' = [pc EXCEPT ![r] = "queued"]
  /\ submitted' = [submitted EXCEPT ![r] = @ + 1]
  /\ UNCHANGED <<video_id, library, future, info, hls_manifest, dash_manifest,
                 formats_list, idx, raised, status, response>>

\* line 111: a free thread of the default executor takes the work item
WorkerStart(r) ==
  /\ pc[r] = "queued"
  /\ Cardinality({q \in Requests : pc[q] = "running"}) < MaxWorkers
  /\ pc' = [pc EXCEPT ![r] = "running"]
  /\ UNCHANGED <<video_id, library, submitted, future, info, hls_manifest,
                 dash_manifest, formats_list, idx, raised, status, response>>

\* lines 98-109: _extract returns or re-raises; the future is completed
WorkerFinish(r) ==
  /\ pc[r] = "running"
  /\ future' = [future EXCEPT ![r] = library[r]]
  /\ pc' = [pc EXCEPT ![r] = "ready"]
  /\ UNCHANGED <<video_id, library, submitted, info, hls_manifest,
                 dash_manifest, formats_list, idx, raised, status, response>>

\* lines 139-147: the await returns or raises; the not-info check
Resume(r) ==
  /\ pc[r] = "ready"
  /\ LET res == FutureResult(r) IN
       IF res.kind \in {"DownloadError", "Exception"}
       THEN /\ Fail(r, res.kind)
            /\ UNCHANGED <<info, hls_manifest, dash_manifest, formats_list, idx>>
       ELSE IF res.kind = "none" \/ res.info = EmptyInfo
       THEN \* raise HTTPException(status_code=404) inside the try block
            /\ Fail(r, "HTTPException")
            /\ info' = [info EXCEPT ![r] = res.info]
            /\ UNCHANGED <<hls_manifest, dash_manifest, formats_list, idx>>
       ELSE /\ info' = [info EXCEPT ![r] = res.info]
            /\ hls_manifest' = [hls_manifest EXCEPT ![r] = None]
            /\ dash_manifest' = [dash_manifest EXCEPT ![r] = None]
            /\ formats_list' = [formats_list EXCEPT ![r] = <<>>]
            /\ pc' = [pc EXCEPT ![r] = "formats"]
            /\ UNCHANGED <<idx, raised, status>>
  /\ UNCHANGED <<video_id, library, submitted, future, response>>

\* lines 150-151: 'formats' in info, and the start of the for loop
EnterFormats(r) ==
  /\ pc[r] = "formats"
  /\ LET f == info[r].formats IN
       IF ~HasKey(f)
       THEN /\ pc' = [pc EXCEPT ![r] = "manifest_url"]
            /\ UNCHANGED <<idx, raised, status>>
       ELSE IF f.t # "list"
       THEN /\ Fail(r, "TypeError")
            /\ UNCHANGED idx
       ELSE /\ idx' = [idx EXCEPT ![r] = 1]
            /\ pc' = [pc EXCEPT ![r] = IF Len(f.v) = 0 THEN "manifest_url" ELSE "scan"]
            /\ UNCHANGED <<raised, status>>
  /\ UNCHANGED <<video_id, library, submitted, future, info, hls_manifest,
                 dash_manifest, formats_list, response>>

\* lines 152-179: one iteration of the for loop
ScanFormat(r) ==
  /\ pc[r] = "scan"
  /\ LET fmt == info[r].formats.v[idx[r]] IN
       /\ hls_manifest' = [hls_manifest EXCEPT ![r] = HlsAfterFormat(@, fmt)]
       /\ IF DashCheckRaises(fmt)
          THEN /\ Fail(r, "AttributeError")
               /\ UNCHANGED <<dash_manifest, formats_list, idx>>
          ELSE /\ dash_manifest' = [dash_manifest EXCEPT ![r] = DashAfterFormat(@, fmt)]
               /\ formats_list' = [formats_list EXCEPT ![r] = Append(@, FormatInfo(fmt))]
               /\ idx' = [idx EXCEPT ![r] = @ + 1]
               /\ pc' = [pc EXCEPT ![r] =
                           IF idx[r] = Len(info[r].formats.v) THEN "manifest_url" ELSE "scan"]
               /\ UNCHANGED <<raised, status>>
  /\ UNCHANGED <<video_id, library, submitted, future, info, response>>

\* lines 182-185
FallbackManifestUrl(r) ==
  /\ pc[r] = "manifest_url"
  /\ IF FallbackManifestRaises(hls_manifest[r], info[r])
     THEN /\ Fail(r, "TypeError")
          /\ UNCHANGED hls_manifest
     ELSE /\ hls_manifest' = [hls_manifest EXCEPT ![r] = HlsAfterManifestUrl(@, info[r])]
          /\ pc' = [pc EXCEPT ![r] = "url"]
          /\ UNCHANGED <<raised, status>>
  /\ UNCHANGED <<video_id, library, submitted, future, info, dash_manifest,
                 formats_list, idx, response>>

\* lines 187-190
FallbackUrl(r) ==
  /\ pc[r] = "url"
  /\ IF FallbackUrlRaises(hls_manifest[r], info[r])
     THEN /\ Fail(r, "TypeError")
          /\ UNCHANGED hls_manifest
     ELSE /\ hls_manifest' = [hls_manifest EXCEPT ![r] = HlsAfterUrl(@, info[r])]
          /\ pc' = [pc EXCEPT ![r] = "build"]
          /\ UNCHANGED <<raised, status>>
  /\ UNCHANGED <<video_id, library, submitted, future, info, dash_manifest,
                 formats_list, idx, response>>

\* lines 193-207
BuildResponse(r) ==
  /\ pc[r] = "build"
  /\ IF ValidationRaises(info[r])
     THEN /\ Fail(r, "ValidationError")
          /\ UNCHANGED response
     ELSE /\ response' = [response EXCEPT ![r] =
                 MakeVideoInfo(video_id[r], info[r], formats_list[r],
                               hls_manifest[r], dash_manifest[r])]
          /\ status' = [status EXCEPT ![r] = 200]
          /\ pc' = [pc EXCEPT ![r] = "done"]
          /\ UNCHANGED raised
  /\ UNCHANGED <<video_id, library, submitted, future, info, hls_manifest,
                 dash_manifest, formats_list, idx>>

\* the steps the event loop runs for a request
HandlerStep(r) ==
  \/ Submit(r)
  \/ Resume(r)
  \/ EnterFormats(r)
  \/ ScanFormat(r)
  \/ FallbackManifestUrl(r)
  \/ FallbackUrl(r)
  \/ BuildResponse(r)

Next ==
  \E r \in Requests :
    \/ Submit(r)
    \/ WorkerStart(r)
    \/ WorkerFinish(r)
    \/ Resume(r)
    \/ EnterFormats(r)
    \/ ScanFormat(r)
    \/ FallbackManifestUrl(r)
    \/ FallbackUrl(r)
    \/ BuildResponse(r)

Spec == Init /\ [][Next]_vars

SpecConc == InitConc /\ [][Next]_vars

\* the event loop runs every coroutine that is ready; nothing is assumed
\* about when, or whether, a worker thread finishes an extraction
SpecConcFair == SpecConc /\ \A r \in Requests : WF_vars(HandlerStep(r))

(* --------------------- vocabulary of the properties ------------------- *)
\* These operators restate the wording of the properties; they do not use
\* the operators that model the code.
Absent(x) == x.t \in {"missing", "none"}
Shown(x) == IF Absent(x) THEN None ELSE x
NonEmpty(x) == x.t = "str" /\ x.v # <<>>
Returned(r) == pc[r] = "done" /\ status[r] = 200
InputInfo(r) == library[r].info
InputFormats(r) ==
  IF InputInfo(r).formats.t = "list" THEN InputInfo(r).formats.v ELSE <<>>

Any(fs, P(_)) == \E i \in 1..Len(fs) : P(fs[i])
First(fs, P(_)) ==
  CHOOSE i \in 1..Len(fs) : P(fs[i]) /\ \A j \in 1..(i - 1) : ~P(fs[j])

HasM3u8(x) ==
  /\ x.t = "str"
  /\ \E i \in 1..Len(x.v) :
       /\ i + 3 <= Len(x.v)
       /\ x.v[i] = "m" /\ x.v[i + 1] = "3" /\ x.v[i + 2] = "u" /\ x.v[i + 3] = "8"

HasDashAnyCase(x) ==
  /\ x.t = "str"
  /\ \E i \in 1..Len(x.v) :
       /\ i + 3 <= Len(x.v)
       /\ x.v[i] \in {"d", "D"} /\ x.v[i + 1] \in {"a", "A"}
       /\ x.v[i + 2] \in {"s", "S"} /\ x.v[i + 3] \in {"h", "H"}

NativeFormat(f) == f.protocol = Str(<<"m", "3", "u", "8", "_", "n", "a", "t", "i", "v", "e">>)
HlsFormat(f) == NativeFormat(f) \/ f.ext = Str(<<"m", "3", "u", "8">>)
HlsFormatWithUrl(f) == HlsFormat(f) /\ NonEmpty(f.url)
DashFormat(f) == f.manifest_url.t # "missing" /\ HasDashAnyCase(f.protocol)
DashFormatWithUrl(f) == DashFormat(f) /\ NonEmpty(f.manifest_url)

\* the value the top-level fallback gives when the scan found no URL
TopLevelHls(i) ==
  IF HasM3u8(i.manifest_url) THEN i.manifest_url
  ELSE IF HasM3u8(i.url) THEN i.url
  ELSE None

(* ------------------------------ properties ---------------------------- *)

\* C1 (as claimed): when the extraction call returns None or an empty info
\* record without raising, the request ends with status 404.
C1_NoResultIs404 ==
  \A r \in Requests :
    (pc[r] = "done"
       /\ (library[r].kind = "none"
             \/ (library[r].kind = "dict" /\ library[r].info = EmptyInfo)))
      => status[r] = 404

\* C2 (as claimed): with at least one m3u8_native format, the returned
\* hls_manifest_url is the url field of the first m3u8_native format.
C2_FirstNativeUrl ==
  \A r \in Requests :
    (Returned(r) /\ Any(InputFormats(r), NativeFormat))
      => response[r].hls_manifest_url
           = Shown(InputFormats(r)[First(InputFormats(r), NativeFormat)].url)

\* C2 (amended): with at least one m3u8_native format, the returned
\* hls_manifest_url is the url of the first format in input order that meets
\* the HLS criteria (protocol m3u8_native or ext m3u8) and has a non-null,
\* non-empty url; when no HLS format has one, it is the top-level fallback
\* value if there is one, and null or empty otherwise.
C2_FirstHlsFormatWithUrl ==
  \A r \in Requests :
    (Returned(r) /\ Any(InputFormats(r), NativeFormat))
      => IF Any(InputFormats(r), HlsFormatWithUrl)
         THEN response[r].hls_manifest_url
                = InputFormats(r)[First(InputFormats(r), HlsFormatWithUrl)].url
         ELSE IF NonEmpty(TopLevelHls(InputInfo(r)))
         THEN response[r].hls_manifest_url = TopLevelHls(InputInfo(r))
         ELSE ~NonEmpty(response[r].hls_manifest_url)

\* C2 witness: a response whose HLS URL comes from an ext == "m3u8" format
\* that precedes the first m3u8_native format.
C2_Witness ==
  \E r \in Requests :
    /\ Returned(r)
    /\ Any(InputFormats(r), NativeFormat)
    /\ Any(InputFormats(r), HlsFormatWithUrl)
    /\ First(InputFormats(r), HlsFormatWithUrl) < First(InputFormats(r), NativeFormat)
    /\ response[r].hls_manifest_url
         = InputFormats(r)[First(InputFormats(r), HlsFormatWithUrl)].url

\* C3 (as claimed): a successfully extracted, non-empty info record whose
\* optional fields are missing or null never makes the classification raise:
\* the request ends with status 200.
C3_NeverFailsOnMissingData ==
  \A r \in Requests :
    (pc[r] = "done" /\ library[r].kind = "dict" /\ library[r].info # EmptyInfo
       /\ library[r].info.title.t # "none")
      => status[r] = 200

\* C4 (as claimed): once hls_manifest (dash_manifest) holds any non-null
\* string, the empty string included, no later step changes it.
C4_FirstNonNullWins ==
  [][\A r \in Requests :
       /\ hls_manifest[r].t = "str" => hls_manifest'[r] = hls_manifest[r]
       /\ dash_manifest[r].t = "str" => dash_manifest'[r] = dash_manifest[r]]_vars

\* C4 (amended): once hls_manifest (dash_manifest) holds a non-empty string,
\* no later format and no fallback step changes it, and the response carries
\* the values the locals hold; an empty string is replaced like null.
C4_FirstNonEmptyWins ==
  [][\A r \in Requests :
       /\ NonEmpty(hls_manifest[r]) => hls_manifest'[r] = hls_manifest[r]
       /\ NonEmpty(dash_manifest[r]) => dash_manifest'[r] = dash_manifest[r]
       /\ (pc[r] = "build" /\ status'[r] = 200)
            => /\ response'[r].hls_manifest_url = hls_manifest[r]
               /\ response'[r].dash_manifest_url = dash_manifest[r]]_vars

\* C4 witness: a response for formats with two HLS candidates that carry
\* different non-empty urls; the first one is the one returned.
C4_Witness ==
  \E r \in Requests :
    /\ Returned(r)
    /\ \E i, j \in 1..Len(InputFormats(r)) :
         /\ i < j
         /\ HlsFormatWithUrl(InputFormats(r)[i])
         /\ HlsFormatWithUrl(InputFormats(r)[j])
         /\ InputFormats(r)[i].url # InputFormats(r)[j].url
         /\ response[r].hls_manifest_url = InputFormats(r)[i].url

\* C5: a DownloadError of the extraction call ends the request with 404, any
\* other exception of extraction or response assembly with 500; a finished
\* request has exactly one of the statuses 200, 404, 500, an unfinished one
\* has none, and 200 is the status exactly when nothing was raised.
C5_StatusOfFailure ==
  \A r \in Requests :
    /\ pc[r] # "done" => status[r] = 0
    /\ pc[r] = "done" =>
         /\ status[r] \in {200, 404, 500}
         /\ library[r].kind = "DownloadError" => status[r] = 404
         /\ library[r].kind = "Exception" => status[r] = 500
         /\ raised[r] \in {"TypeError", "AttributeError", "ValidationError"}
              => status[r] = 500
         /\ status[r] = 200 <=> raised[r] = ""
         /\ status[r] = 404 => library[r].kind = "DownloadError"

\* C5 witness: a request whose extraction raised DownloadError has ended.
C5_Witness ==
  \E r \in Requests :
    pc[r] = "done" /\ library[r].kind = "DownloadError" /\ status[r] = 404

\* C6 (as claimed): dash_manifest_url is the manifest_url of the first format
\* that has a manifest_url field and a protocol containing "dash" in any
\* case; it is null when no format qualifies.
C6_FirstDashManifest ==
  \A r \in Requests :
    Returned(r)
      => IF Any(InputFormats(r), DashFormat)
         THEN response[r].dash_manifest_url
                = Shown(InputFormats(r)[First(InputFormats(r), DashFormat)].manifest_url)
         ELSE response[r].dash_manifest_url = None

\* C6 (amended): dash_manifest_url is the manifest_url of the first format
\* that has a manifest_url field, a protocol containing "dash" in any case
\* and a non-null, non-empty manifest_url; it is null or empty when no format
\* has all three, and null when no format qualifies at all, whatever the
\* top-level manifest_url and url are.
C6_FirstDashFormatWithUrl ==
  \A r \in Requests :
    Returned(r)
      => IF Any(InputFormats(r), DashFormatWithUrl)
         THEN response[r].dash_manifest_url
                = InputFormats(r)[First(InputFormats(r), DashFormatWithUrl)].manifest_url
         ELSE IF Any(InputFormats(r), DashFormat)
         THEN ~NonEmpty(response[r].dash_manifest_url)
         ELSE response[r].dash_manifest_url = None

\* C6 witness: a response whose DASH URL comes from a format with an
\* upper-case DASH protocol.
C6_Witness ==
  \E r \in Requests :
    /\ Returned(r)
    /\ Any(InputFormats(r), DashFormatWithUrl)
    /\ LET f == InputFormats(r)[First(InputFormats(r), DashFormatWithUrl)]
       IN /\ f.protocol.v[1] = "D"
          /\ response[r].dash_manifest_url = f.manifest_url

\* C7: when no format meets the HLS criteria and the top-level manifest_url
\* contains "m3u8", the returned hls_manifest_url is that manifest_url, also
\* when the top-level url contains "m3u8"; the top-level url supplies the
\* value only when the manifest_url did not; and a non-empty URL found by the
\* per-format scan is returned instead of either top-level value.
C7_TopLevelFallback ==
  \A r \in Requests :
    Returned(r) =>
      /\ (~Any(InputFormats(r), HlsFormat) /\ HasM3u8(InputInfo(r).manifest_url))
           => response[r].hls_manifest_url = InputInfo(r).manifest_url
      /\ (~Any(InputFormats(r), HlsFormat) /\ ~HasM3u8(InputInfo(r).manifest_url))
           => response[r].hls_manifest_url = TopLevelHls(InputInfo(r))
      /\ Any(InputFormats(r), HlsFormatWithUrl)
           => \E i \in 1..Len(InputFormats(r)) :
                /\ HlsFormatWithUrl(InputFormats(r)[i])
                /\ response[r].hls_manifest_url = InputFormats(r)[i].url

\* C7 witness: no HLS format, both top-level fields contain "m3u8", and the
\* response carries the top-level manifest_url.
C7_Witness ==
  \E r \in Requests :
    /\ Returned(r)
    /\ Len(InputFormats(r)) > 0
    /\ ~Any(InputFormats(r), HlsFormat)
    /\ HasM3u8(InputInfo(r).manifest_url)
    /\ HasM3u8(InputInfo(r).url)
    /\ InputInfo(r).url # InputInfo(r).manifest_url
    /\ response[r].hls_manifest_url = InputInfo(r).manifest_url

\* C8: with concurrent requests, each request submits its own extraction to
\* the executor exactly once, its status and response are computed from its
\* own video_id and its own extraction result only, and a request whose
\* extraction has completed gets its response whatever the other requests'
\* extractions do (queued, running, or never finishing).
C8_OwnExtractionOnly ==
  \A r \in Requests :
    /\ submitted[r] = (IF pc[r] = "start" THEN 0 ELSE 1)
    /\ pc[r] \notin {"start", "queued", "running"} => future[r] = library[r]
    /\ pc[r] \in {"formats", "scan", "manifest_url", "url", "build"}
         => info[r] = library[r].info
    /\ pc[r] = "done" =>
         /\ library[r].kind = "DownloadError" => status[r] = 404
         /\ library[r].kind = "dict" =>
              /\ status[r] = 200
              /\ response[r].video_id = video_id[r]
              /\ response[r].title
                   = (IF Absent(InputInfo(r).title)
                      THEN Str(<<"U", "n", "k", "n", "o", "w", "n">>)
                      ELSE InputInfo(r).title)
              /\ response[r].manifest_url = Shown(InputInfo(r).manifest_url)
              /\ Len(response[r].formats) = Len(InputFormats(r))
              /\ \A i \in 1..Len(InputFormats(r)) :
                   response[r].formats[i].url = Shown(InputFormats(r)[i].url)
              /\ response[r].hls_manifest_url
                   = (IF Any(InputFormats(r), HlsFormatWithUrl)
                      THEN InputFormats(r)[First(InputFormats(r), HlsFormatWithUrl)].url
                      ELSE TopLevelHls(InputInfo(r)))

C8_Isolation ==
  /\ []C8_OwnExtractionOnly
  /\ \A r \in Requests : (pc[r] = "ready") ~> (pc[r] = "done")

\* C8 witness: one request has its 200 response while another request's
\* extraction is still running, and the two extractions gave different
\* results.
C8_Witness ==
  \E r, q \in Requests :
    /\ r # q
    /\ Returned(r)
    /\ pc[q] = "running"
    /\ library[q] # library[r]
    /\ submitted[r] = 1 /\ submitted[q] = 1

\* C9 (as claimed): if the first format meeting the HLS criteria has an
\* absent or null url, that match is final for the per-format scan: the scan
\* ends with hls_manifest null, also when a later HLS format has a real url.
C9_FirstMatchMasksLater ==
  \A r \in Requests :
    (pc[r] = "manifest_url"
       /\ Any(InputFormats(r), HlsFormat)
       /\ Absent(InputFormats(r)[First(InputFormats(r), HlsFormat)].url))
      => hls_manifest[r] = None

\* C9 (amended): HLS assignment happens on a qualifying format only while
\* hls_manifest is still null or empty: if the first format meeting the HLS
\* criteria has an absent or null url, that match is not final; the scan ends
\* with the url of the first later HLS format that has a non-empty url, and
\* with a null or empty hls_manifest only when there is no such format.
C9_NullMatchNotFinal ==
  \A r \in Requests :
    (pc[r] = "manifest_url"
       /\ Any(InputFormats(r), HlsFormat)
       /\ Absent(InputFormats(r)[First(InputFormats(r), HlsFormat)].url))
      => IF Any(InputFormats(r), HlsFormatWithUrl)
         THEN hls_manifest[r]
                = InputFormats(r)[First(InputFormats(r), HlsFormatWithUrl)].url
         ELSE ~NonEmpty(hls_manifest[r])

\* C9 witness: the scan has ended, the first HLS format had no url and a
\* later HLS format supplied hls_manifest.
C9_Witness ==
  \E r \in Requests :
    /\ pc[r] = "manifest_url"
    /\ Any(InputFormats(r), HlsFormat)
    /\ Absent(InputFormats(r)[First(InputFormats(r), HlsFormat)].url)
    /\ Any(InputFormats(r), HlsFormatWithUrl)
    /\ hls_manifest[r] = InputFormats(r)[First(InputFormats(r), HlsFormatWithUrl)].url

\* C10: the returned formats sequence has the length of the input formats
\* sequence (empty when there are no formats) and descriptor i is the
\* projection of input format i, with is_hls set exactly when format i has
\* protocol m3u8_native or ext m3u8, and is_dash set exactly when format i
\* has a manifest_url field and a protocol containing "dash" in any case.
C10_FormatsCorrespond ==
  \A r \in Requests :
    Returned(r) =>
      /\ Len(response[r].formats) = Len(InputFormats(r))
      /\ \A i \in 1..Len(InputFormats(r)) :
           LET f == InputFormats(r)[i]
               d == response[r].formats[i]
           IN /\ d.format_id = Shown(f.format_id)
              /\ d.ext = Shown(f.ext)
              /\ d.protocol = Shown(f.protocol)
              /\ d.url = Shown(f.url)
              /\ d.is_hls <=> HlsFormat(f)
              /\ d.is_dash <=> DashFormat(f)

\* C10 witness: the scenario {formats: [{https, mp4, "a"}, {m3u8_native,
\* "b"}]}: two descriptors in input order, the second with is_hls, HLS URL
\* "b", no DASH URL.
C10_Witness ==
  \E r \in Requests :
    /\ Returned(r)
    /\ Len(InputFormats(r)) = 2
    /\ InputFormats(r)[1].url = Str(<<"a">>)
    /\ InputFormats(r)[2].url = Str(<<"b">>)
    /\ ~response[r].formats[1].is_hls
    /\ response[r].formats[2].is_hls
    /\ ~response[r].formats[2].is_dash
    /\ response[r].hls_manifest_url = Str(<<"b">>)
    /\ response[r].dash_manifest_url = None

TypeOK ==
  /\ pc \in [Requests -> {"absent", "start", "queued", "running", "ready", "formats",
                          "scan", "manifest_url", "url", "build", "done"}]
  /\ status \in [Requests -> {0, 200, 404, 500}]
====
